---- MODULE Spec2Model ----
(***************************************************************************)
(* Model of src/util/resolver_mode.rs: the resolver-mode directive parser  *)
(* (ResolverModeType::from_str), the policy queries (count, range,         *)
(* is_while, is_random) and the index iterator (ResolverModeIter).         *)
(*                                                                         *)
(* Text is modelled as a sequence of one-character strings, so that        *)
(* strip_prefix and the integer parser work on the characters as the code  *)
(* does.  A policy is a record [tag, index]; While carries no index in the *)
(* source and always has index 0 here.                                     *)
(***************************************************************************)
EXTENDS Integers, Sequences, FiniteSets, TLC

VARIABLES
    token,     \* the text given to from_str
    result,    \* what from_str returned for it
    mode,      \* the policy the caller holds (parsed or constructed)
    iters,     \* the ResolverModeIter structs: mode, rand (the thread whose
               \* thread-local generator the handle refers to) and offset
    out,       \* per iterator, the values next has returned as Some, in order
    nones,     \* per iterator, how many times next has returned None
    last,      \* per iterator, what the latest call of next returned
    rng,       \* per thread, how many values its generator has handed out
    panicked   \* an arithmetic overflow has aborted the program

vars == <<token, result, mode, iters, out, nones, last, rng, panicked>>

(***************************************************************************)
(* Bounds of the model.                                                    *)
(***************************************************************************)
\* largest count of a policy that is iterated
MaxCount == 2
\* how many further next requests are made after an iterator is exhausted
MaxExtra == 2
\* longest generated suffix appended to a head when building input tokens
MaxSuffixLen == 3

\* a u32 is kept as two 16-bit limbs [hi, lo], so that the whole 32-bit range,
\* the hardened boundary 2^31 and the overflow at 2^32 are exact
Limb == 2^16

\* the u32 with the value n, for 0 <= n < 2^31
u32(n) == [hi |-> (n \div Limb) % Limb, lo |-> n % Limb]

\* u32::MAX
U32Max == [hi |-> Limb - 1, lo |-> Limb - 1]

\* a >= b on u32
ge(a, b) == a.hi > b.hi \/ (a.hi = b.hi /\ a.lo >= b.lo)

\* wallet::bip32 HARDENED_INDEX_BOUNDARY = 2^31: the top bit of the index
HARDENED_INDEX_BOUNDARY == [hi |-> Limb \div 2, lo |-> 0]

Iters == {1, 2}
Threads == {1, 2}

\* the values the thread-local generator is observed to return
RandVals == {u32(0), u32(1), U32Max}

(***************************************************************************)
(* Text.                                                                   *)
(***************************************************************************)
first_ == <<"f", "i", "r", "s", "t">>
random_ == <<"r", "a", "n", "d", "o", "m">>
while_ == <<"w", "h", "i", "l", "e">>

Digits == {"0", "1", "2", "3", "4", "5", "6", "7", "8", "9"}

\* char::to_digit(10)
to_digit(c) ==
    CASE c = "0" -> 0 [] c = "1" -> 1 [] c = "2" -> 2 [] c = "3" -> 3
      [] c = "4" -> 4 [] c = "5" -> 5 [] c = "6" -> 6 [] c = "7" -> 7
      [] c = "8" -> 8 [] c = "9" -> 9 [] OTHER -> -1

\* str::strip_prefix: the remainder after the prefix, or nothing
strip_prefix(s, p) ==
    IF Len(s) >= Len(p) /\ SubSeq(s, 1, Len(p)) = p
    THEN [some |-> TRUE, rest |-> SubSeq(s, Len(p) + 1, Len(s))]
    ELSE [some |-> FALSE, rest |-> <<>>]

\* acc * 10 + d on limbs; over is set when the result leaves 32 bits
mul10_add(acc, d) ==
    LET lo10 == acc.lo * 10 + d
        hi10 == acc.hi * 10 + (lo10 \div Limb)
    IN [over |-> hi10 >= Limb, val |-> [hi |-> hi10 % Limb, lo |-> lo10 % Limb]]

RECURSIVE u32_digits(_, _)
\* the digit loop of u32::from_str: per character, the digit test, then the
\* checked multiplication by ten and the checked addition
u32_digits(ds, acc) ==
    IF ds = <<>> THEN [ok |-> TRUE, val |-> acc, kind |-> "none"]
    ELSE IF to_digit(Head(ds)) < 0
         THEN [ok |-> FALSE, val |-> u32(0), kind |-> "InvalidDigit"]
    ELSE IF mul10_add(acc, to_digit(Head(ds))).over
         THEN [ok |-> FALSE, val |-> u32(0), kind |-> "PosOverflow"]
    ELSE u32_digits(Tail(ds), mul10_add(acc, to_digit(Head(ds))).val)

\* u32::from_str: an optional leading "+", then decimal digits
u32_from_str(s) ==
    IF s = <<>> THEN [ok |-> FALSE, val |-> u32(0), kind |-> "Empty"]
    ELSE IF Len(s) = 1 /\ Head(s) \in {"+", "-"}
         THEN [ok |-> FALSE, val |-> u32(0), kind |-> "InvalidDigit"]
    ELSE IF Head(s) = "+" THEN u32_digits(Tail(s), u32(0))
    ELSE u32_digits(s, u32(0))

(***************************************************************************)
(* Policies and parse results.                                             *)
(***************************************************************************)
NoMode == [tag |-> "None", index |-> 0]
While == [tag |-> "While", index |-> 0]
First(n) == [tag |-> "First", index |-> n]
Random(n) == [tag |-> "Random", index |-> n]

\* UnhardenedIndex::from_index: rejects the hardened half of the index space
from_index(v) ==
    IF ge(v, HARDENED_INDEX_BOUNDARY) THEN [ok |-> FALSE, index |-> 0]
    ELSE [ok |-> TRUE, index |-> v.hi * Limb + v.lo]

\* UnhardenedIndex::one()
one == 1

NotParsed == [kind |-> "NotParsed", mode |-> NoMode, int |-> "none", payload |-> <<>>]
Ok(m) == [kind |-> "Ok", mode |-> m, int |-> "none", payload |-> <<>>]
InvalidInteger(k) == [kind |-> "InvalidInteger", mode |-> NoMode, int |-> k, payload |-> <<>>]
HardenedIndex == [kind |-> "HardenedIndex", mode |-> NoMode, int |-> "none", payload |-> <<>>]
UnrecognizedTypeName(s) ==
    [kind |-> "UnrecognizedTypeName", mode |-> NoMode, int |-> "none", payload |-> s]

\* the numeric suffix of "first<N>" / "random<N>": u32::from_str(s)? and then
\* UnhardenedIndex::from_index(..).map_err(|_| ParseError::HardenedIndex)?,
\* wrapped in the variant named by tag
parse_index(s, tag) ==
    LET n == u32_from_str(s) IN
    IF ~n.ok THEN InvalidInteger(n.kind)
    ELSE IF ~from_index(n.val).ok THEN HardenedIndex
    ELSE Ok([tag |-> tag, index |-> from_index(n.val).index])

\* s.trim().to_owned(): the text without its leading blanks
RECURSIVE unrecognized_payload_trimmed(_)
unrecognized_payload_trimmed(s) ==
    IF s # <<>> /\ Head(s) = " " THEN unrecognized_payload_trimmed(Tail(s)) ELSE s

\* the payload of the unrecognized-directive error: s.to_owned(), s being the
\* function's argument (the prefix-stripped bindings are out of scope there)
unrecognized_payload(s) == s

\* from_str with "while" tested as a prefix, like the other two names
from_str_while_prefix(s) ==
    IF strip_prefix(s, first_).some
    THEN LET r == strip_prefix(s, first_).rest IN
         IF r = <<>> THEN Ok(First(one)) ELSE parse_index(r, "First")
    ELSE IF strip_prefix(s, random_).some
    THEN LET r == strip_prefix(s, random_).rest IN
         IF r = <<>> THEN Ok(Random(one)) ELSE parse_index(r, "Random")
    ELSE IF strip_prefix(s, while_).some THEN Ok(While)
    ELSE UnrecognizedTypeName(unrecognized_payload(s))

\* ResolverModeType::from_str
from_str(s) ==
    IF strip_prefix(s, first_).some
    THEN LET r == strip_prefix(s, first_).rest IN
         IF r = <<>> THEN Ok(First(one)) ELSE parse_index(r, "First")
    ELSE IF strip_prefix(s, random_).some
    THEN LET r == strip_prefix(s, random_).rest IN
         IF r = <<>> THEN Ok(Random(one)) ELSE parse_index(r, "Random")
    ELSE IF s = while_ THEN Ok(While)
    ELSE UnrecognizedTypeName(unrecognized_payload(s))

\* the character of a decimal digit
digit_char(d) ==
    CASE d = 0 -> "0" [] d = 1 -> "1" [] d = 2 -> "2" [] d = 3 -> "3" [] d = 4 -> "4"
      [] d = 5 -> "5" [] d = 6 -> "6" [] d = 7 -> "7" [] d = 8 -> "8" [] d = 9 -> "9"

RECURSIVE decimal(_)
\* the index formatted by "{0}": its value in decimal, without sign or padding
decimal(n) ==
    IF n < 10 THEN <<digit_char(n)>>
    ELSE Append(decimal(n \div 10), digit_char(n % 10))

\* the text of a policy with the variants named as the enum spells them
display_variant_names(m) ==
    CASE m.tag = "While" -> <<"W", "h", "i", "l", "e">>
      [] m.tag = "First" -> <<"F", "i", "r", "s", "t">> \o decimal(m.index)
      [] m.tag = "Random" -> <<"R", "a", "n", "d", "o", "m">> \o decimal(m.index)

\* Display of ResolverModeType: "while", "first{0}", "random{0}"
display(m) ==
    CASE m.tag = "While" -> while_
      [] m.tag = "First" -> first_ \o decimal(m.index)
      [] m.tag = "Random" -> random_ \o decimal(m.index)

\* count with While scanning nothing
count_while_zero(m) ==
    CASE m.tag = "While" -> 0
      [] m.tag = "First" -> m.index
      [] m.tag = "Random" -> m.index

\* ResolverModeType::count
count(m) ==
    CASE m.tag = "While" -> 1
      [] m.tag = "First" -> m.index
      [] m.tag = "Random" -> m.index

\* range with the count cut to 16 bits by the cast
range_u16(m) == [start |-> u32(0), end |-> [hi |-> 0, lo |-> count(m) % Limb]]

\* ResolverModeType::range: 0u32..(self.count() as u32)
range(m) == [start |-> u32(0), end |-> u32(count(m))]

\* ResolverModeType::is_while
is_while(m) == m = While

\* ResolverModeType::is_random
is_random(m) == m.tag = "Random"

(***************************************************************************)
(* Input tokens: a head followed by a suffix, the suffix being every text  *)
(* of up to MaxSuffixLen characters over SuffixChars, or one of the long   *)
(* numerals around the boundaries 2^31 and 2^32.                           *)
(***************************************************************************)
banana == <<"b", "a", "n", "a", "n", "a">>

Heads ==
    { <<>>, first_, random_, while_, banana,
      <<"f", "i", "r", "s">>, <<"F", "i", "r", "s", "t">>, <<" ">> \o first_,
      <<"r", "a", "n", "d", "o", "m", "x">> }

SuffixChars == {"0", "1", "2", "3", "+", "-", "a", " "}

Suffixes == UNION { [1..k -> SuffixChars] : k \in 0..MaxSuffixLen }

\* 2^31 - 1, 2^31, 2^32 - 1, 2^32, and signed or padded variants
LongSuffixes ==
    { <<"2", "1", "4", "7", "4", "8", "3", "6", "4", "7">>,
      <<"2", "1", "4", "7", "4", "8", "3", "6", "4", "8">>,
      <<"4", "2", "9", "4", "9", "6", "7", "2", "9", "5">>,
      <<"4", "2", "9", "4", "9", "6", "7", "2", "9", "6">>,
      <<"+", "2", "1", "4", "7", "4", "8", "3", "6", "4", "8">>,
      <<"0", "2", "1", "4", "7", "4", "8", "3", "6", "4", "7">>,
      <<"9", "9", "9", "9", "9", "9", "9", "9", "9", "9", "9", "a">>,
      <<"5">>, <<"a", "b", "c">> }

Tokens == { h \o x : h \in Heads, x \in Suffixes \cup LongSuffixes }

\* the policies a caller builds without the parser
Policies ==
    {While} \cup { First(n) : n \in 0..MaxCount } \cup { Random(n) : n \in 0..MaxCount }

(***************************************************************************)
(* The iterator.                                                           *)
(***************************************************************************)
NoIter == [made |-> FALSE, mode |-> NoMode, rand |-> 0, offset |-> u32(0)]

NotCalled == [some |-> FALSE, called |-> FALSE, val |-> u32(0)]
None == [some |-> FALSE, called |-> TRUE, val |-> u32(0)]
Some(v) == [some |-> TRUE, called |-> TRUE, val |-> v]

\* ResolverModeType::into_iter: the iterator struct it builds for thread t
into_iter(m, t) == [made |-> TRUE, mode |-> m, rand |-> t, offset |-> range(m).start]

\* the end test with > in place of >=
exhausted_strict(it) ==
    ge(it.offset, range(it.mode).end) /\ it.offset # range(it.mode).end

\* the test that ends the iteration: self.offset >= self.mode.range().end
exhausted(it) == ge(it.offset, range(it.mode).end)

\* whether next asks the generator for a value: only for a random mode
draws(it) == is_random(it.mode)

\* the emitted value taken from the generator for every mode
index_of_drawn(it, r) == r

\* the draw reduced into the range of the mode (r % count) before it is emitted
index_of_in_range(it, r) ==
    IF is_random(it.mode)
    THEN LET n == count(it.mode) IN
         IF n = 0 THEN r
         ELSE u32((((r.hi % n) * (Limb % n)) + (r.lo % n)) % n)
    ELSE it.offset

\* the value to emit: the draw r for a random mode, the cursor otherwise
index_of(it, r) == IF is_random(it.mode) THEN r ELSE it.offset

\* self.offset += 1 on u32; over is set when the addition overflows
add_one(x) ==
    IF x.lo < Limb - 1 THEN [over |-> FALSE, val |-> [hi |-> x.hi, lo |-> x.lo + 1]]
    ELSE IF x.hi < Limb - 1 THEN [over |-> FALSE, val |-> [hi |-> x.hi + 1, lo |-> 0]]
    ELSE [over |-> TRUE, val |-> u32(0)]

\* the cursor moved past the value just emitted (offset = index + 1)
advance_to_value(it, index) == add_one(index)

\* the cursor after an emission: one more than before, whatever was emitted
advance(it, index) == add_one(it.offset)

Init ==
    /\ token = <<>>
    /\ result = NotParsed
    /\ mode = NoMode
    /\ iters = [i \in Iters |-> NoIter]
    /\ out = [i \in Iters |-> <<>>]
    /\ nones = [i \in Iters |-> 0]
    /\ last = [i \in Iters |-> NotCalled]
    /\ rng = [t \in Threads |-> 0]
    /\ panicked = FALSE

\* ResolverModeType::from_str(t), the caller keeping the policy on success
FromStr ==
    /\ result = NotParsed
    /\ mode = NoMode
    /\ \E t \in Tokens :
          /\ token' = t
          /\ result' = from_str(t)
          /\ mode' = from_str(t).mode
    /\ UNCHANGED <<iters, out, nones, last, rng, panicked>>

\* a policy built from the enum's constructors
Construct ==
    /\ result = NotParsed
    /\ mode = NoMode
    /\ \E m \in Policies : mode' = m
    /\ UNCHANGED <<token, result, iters, out, nones, last, rng, panicked>>

\* mode.into_iter() called on thread t: iterator i is created
IntoIter(i, t) ==
    /\ mode # NoMode
    /\ ~iters[i].made
    /\ ~panicked
    /\ count(mode) <= MaxCount
    /\ iters' = [iters EXCEPT ![i] = into_iter(mode, t)]
    /\ UNCHANGED <<token, result, mode, out, nones, last, rng, panicked>>

\* next on an exhausted iterator starting the scan over
NextNoneRestart(i) ==
    /\ iters[i].made
    /\ ~panicked
    /\ exhausted(iters[i])
    /\ nones[i] < MaxExtra
    /\ last' = [last EXCEPT ![i] = None]
    /\ nones' = [nones EXCEPT ![i] = @ + 1]
    /\ iters' = [iters EXCEPT ![i].offset = range(iters[i].mode).start]
    /\ UNCHANGED <<token, result, mode, out, rng, panicked>>

\* ResolverModeIter::next on iterator i, when the cursor has reached the end
NextNone(i) ==
    /\ iters[i].made
    /\ ~panicked
    /\ exhausted(iters[i])
    /\ nones[i] < MaxExtra
    /\ last' = [last EXCEPT ![i] = None]
    /\ nones' = [nones EXCEPT ![i] = @ + 1]
    /\ UNCHANGED <<token, result, mode, iters, out, rng, panicked>>

\* an emission with one cursor shared by all the iterators
EmitSharedCursor(i, index, off) ==
    /\ iters' = [j \in Iters |-> IF iters[j].made THEN [iters[j] EXCEPT !.offset = off]
                                 ELSE iters[j]]
    /\ out' = [out EXCEPT ![i] = Append(@, index)]
    /\ last' = [last EXCEPT ![i] = Some(index)]
    /\ UNCHANGED panicked

\* what next does to iterator i when it emits index and the cursor becomes off
Emit(i, index, off) ==
    /\ iters' = [iters EXCEPT ![i].offset = off]
    /\ out' = [out EXCEPT ![i] = Append(@, index)]
    /\ last' = [last EXCEPT ![i] = Some(index)]
    /\ UNCHANGED panicked

\* next emitting with one generator for the whole process: a draw advances the
\* state seen from every thread
NextSomeProcessWide(i, r) ==
    /\ iters[i].made
    /\ ~panicked
    /\ ~exhausted(iters[i])
    /\ Len(out[i]) <= MaxCount
    /\ rng' = IF draws(iters[i]) THEN [t \in Threads |-> rng[t] + 1] ELSE rng
    /\ LET index == index_of(iters[i], r)
           sum == advance(iters[i], index)
       IN IF sum.over
          THEN \/ panicked' = TRUE /\ UNCHANGED <<iters, out, last>>
               \/ Emit(i, index, u32(0))
          ELSE Emit(i, index, sum.val)
    /\ UNCHANGED <<token, result, mode, nones>>

\* ResolverModeIter::next on iterator i, when it emits; r is what the
\* generator returns if it is asked
NextSome(i, r) ==
    /\ iters[i].made
    /\ ~panicked
    /\ ~exhausted(iters[i])
    /\ Len(out[i]) <= MaxCount
    /\ rng' = IF draws(iters[i]) THEN [rng EXCEPT ![iters[i].rand] = @ + 1] ELSE rng
    /\ LET index == index_of(iters[i], r)
           sum == advance(iters[i], index)
       IN IF sum.over
          THEN \* the overflow of += panics in a debug build, wraps in a release build
               \/ panicked' = TRUE /\ UNCHANGED <<iters, out, last>>
               \/ Emit(i, index, u32(0))
          ELSE Emit(i, index, sum.val)
    /\ UNCHANGED <<token, result, mode, nones>>

Next ==
    \/ FromStr
    \/ Construct
    \/ \E i \in Iters, t \in Threads : IntoIter(i, t)
    \/ \E i \in Iters : NextNone(i)
    \/ \E i \in Iters, r \in RandVals : NextSome(i, r)

Spec == Init /\ [][Next]_vars

TypeOK ==
    /\ mode.tag \in {"None", "While", "First", "Random"}
    /\ result.kind \in {"NotParsed", "Ok", "InvalidInteger", "HardenedIndex",
                        "UnrecognizedTypeName"}
    /\ \A i \in Iters : iters[i].made => iters[i].mode = mode
    /\ \A t \in Threads : rng[t] >= 0

(***************************************************************************)
(* The directive grammar as the specification words it, stated on the text *)
(* alone: used by the properties of the parser below.                      *)
(***************************************************************************)
HasPrefix(t, p) == Len(t) >= Len(p) /\ \A k \in 1..Len(p) : t[k] = p[k]

\* the text after the first n characters
After(t, n) == [k \in 1..(Len(t) - n) |-> t[k + n]]

\* an unsigned decimal: one or more ASCII digits and nothing else
IsNumeral(x) == x # <<>> /\ \A k \in 1..Len(x) : x[k] \in Digits

RECURSIVE StripZeros(_)
StripZeros(x) ==
    IF Len(x) > 1 /\ x[1] = "0" THEN StripZeros(After(x, 1)) ELSE x

\* x <= y for two numerals of the same length
LexLE(x, y) ==
    \/ x = y
    \/ \E k \in 1..Len(x) :
          /\ \A j \in 1..(k - 1) : x[j] = y[j]
          /\ to_digit(x[k]) < to_digit(y[k])

Num2p31m1 == <<"2", "1", "4", "7", "4", "8", "3", "6", "4", "7">>
Num2p32m1 == <<"4", "2", "9", "4", "9", "6", "7", "2", "9", "5">>

\* the numeral x has a value of at most that of the ten-digit numeral y
ValueLE(x, y) ==
    LET z == StripZeros(x) IN Len(z) < Len(y) \/ (Len(z) = Len(y) /\ LexLE(z, y))

RECURSIVE DecValue(_)
\* the value of a numeral that is below 2^31
DecValue(x) ==
    IF x = <<>> THEN 0
    ELSE DecValue(SubSeq(x, 1, Len(x) - 1)) * 10 + to_digit(x[Len(x)])

\* the suffix of a token "first<S>" or "random<S>", else the empty text
Suffix(t) ==
    IF HasPrefix(t, first_) THEN After(t, Len(first_))
    ELSE IF HasPrefix(t, random_) THEN After(t, Len(random_))
    ELSE <<>>

\* the token is "first<N>" or "random<N>" with N an unsigned decimal
IsNumbered(t) == (HasPrefix(t, first_) \/ HasPrefix(t, random_)) /\ IsNumeral(Suffix(t))

\* the token has one of the five forms of the grammar, whatever the value of N
MatchesForm(t) == t \in {while_, first_, random_} \/ IsNumbered(t)

\* the token is accepted by the grammar: a form whose N is below 2^31
Accepted(t) ==
    t \in {while_, first_, random_} \/ (IsNumbered(t) /\ ValueLE(Suffix(t), Num2p31m1))

\* the policy the grammar gives an accepted token
Expected(t) ==
    IF t = while_ THEN While
    ELSE IF t = first_ THEN First(1)
    ELSE IF t = random_ THEN Random(1)
    ELSE IF HasPrefix(t, first_) THEN First(DecValue(StripZeros(Suffix(t))))
    ELSE Random(DecValue(StripZeros(Suffix(t))))

Parsed == result # NotParsed

(***************************************************************************)
(* Properties.                                                             *)
(***************************************************************************)

\* C1: a First(n) iterator emits 0, 1, ..., n-1 in this order (its k-th value
\* is k-1), never more than n values, and reports the end only after all n.
C1_FirstEmitsAscending ==
    \A i \in Iters :
        iters[i].made /\ iters[i].mode.tag = "First" =>
            /\ Len(out[i]) <= iters[i].mode.index
            /\ \A k \in 1..Len(out[i]) : out[i][k] = u32(k - 1)
            /\ (nones[i] > 0 \/ last[i] = None) => Len(out[i]) = iters[i].mode.index

\* C1 witness: a First(MaxCount) iterator has emitted all its values and ended
C1_Witness ==
    \E i \in Iters :
        /\ iters[i].mode = First(MaxCount)
        /\ Len(out[i]) = MaxCount
        /\ out[i][MaxCount] = u32(MaxCount - 1)
        /\ last[i] = None

\* C2: a Random(n) iterator emits exactly n values whatever is drawn: it never
\* emits more than n, and the end is reported only once n values were emitted,
\* so that request n+1 is the first to report the end.
C2_RandomEmitsCount ==
    \A i \in Iters :
        iters[i].made /\ iters[i].mode.tag = "Random" =>
            /\ Len(out[i]) <= iters[i].mode.index
            /\ (nones[i] > 0 \/ last[i] = None) => Len(out[i]) = iters[i].mode.index

\* C2 witness: a Random(MaxCount) iterator ended after draws that repeat a
\* value outside the range, and another ended after drawing 0
C2_Witness ==
    /\ \E i \in Iters :
          /\ iters[i].mode = Random(MaxCount)
          /\ out[i] = [k \in 1..MaxCount |-> U32Max]
          /\ last[i] = None /\ nones[i] = 1
    /\ \E i \in Iters :
          /\ Len(out[i]) = MaxCount
          /\ out[i][1] = u32(0)
          /\ last[i] = None

\* C3: once an iterator has reported the end, every later step leaves it
\* reporting the end, emits nothing more and leaves its cursor and mode alone.
C3_ExhaustionTerminal ==
    [][\A i \in Iters :
          last[i] = None => last'[i] = None /\ out'[i] = out[i] /\ iters'[i] = iters[i]]_vars

\* C3 witness: an iterator that emitted values has been asked twice after its end
C3_Witness ==
    \E i \in Iters : nones[i] >= 2 /\ last[i] = None /\ Len(out[i]) = MaxCount

\* C4: the parser accepts a token exactly when the whole token is "while",
\* "first", "random", or "first"/"random" followed by ASCII digits only with a
\* value below 2^31, and the policy returned is the one the grammar names.
C4_AcceptsExactlyGrammar ==
    Parsed =>
        /\ (result.kind = "Ok") <=> Accepted(token)
        /\ Accepted(token) => result = Ok(Expected(token))

\* C5: for "first<S>" / "random<S>" with S not empty, a numeral S with
\* 2^31 <= value <= 2^32 - 1 is the hardened-index failure, an S that is no
\* unsigned decimal or exceeds 2^32 - 1 is the malformed-integer failure, and
\* 2^31 - 1 is accepted.
C5_NumericFailuresDistinct ==
    Parsed /\ Suffix(token) # <<>> =>
        LET S == Suffix(token) IN
        /\ IsNumeral(S) /\ ~ValueLE(S, Num2p31m1) /\ ValueLE(S, Num2p32m1)
              => result = HardenedIndex
        /\ ~IsNumeral(S) \/ ~ValueLE(S, Num2p32m1)
              => result.kind = "InvalidInteger" /\ result.mode = NoMode
        /\ S = Num2p31m1 => result.kind = "Ok"

\* C6 as stated: every token that has none of the five forms is rejected with
\* the unrecognized-directive failure.
C6_NoFormIsUnrecognized ==
    Parsed /\ ~MatchesForm(token) => result.kind = "UnrecognizedTypeName"

\* C6 amended: the unrecognized-directive failure is the result exactly for the
\* tokens that are not "while" and begin with neither "first" nor "random"; a
\* token that begins with "first" or "random" never fails with it, whatever
\* follows the name.
C6_UnrecognizedIffNoName ==
    Parsed =>
        (result.kind = "UnrecognizedTypeName") <=>
            (token # while_ /\ ~HasPrefix(token, first_) /\ ~HasPrefix(token, random_))

\* C6 witness: "while1", which continues a name without being one of the
\* forms, is rejected as unrecognized
C6_Witness ==
    /\ token = while_ \o <<"1">>
    /\ result.kind = "UnrecognizedTypeName"

\* C7: the payload of the unrecognized-directive failure is the whole input
\* token, character for character.
C7_PayloadIsToken ==
    result.kind = "UnrecognizedTypeName" => result.payload = token

\* C7 witness: a token with a leading blank before a known name is rejected
\* and comes back whole
C7_Witness ==
    /\ token = <<" ">> \o first_ \o <<"1">>
    /\ result = UnrecognizedTypeName(<<" ", "f", "i", "r", "s", "t", "1">>)

\* C8: "while" parses to While; While has count 1, range [0,1), is_while and
\* not is_random; an iterator over While emits the single value 0 and ends.
C8_WhileScansIndexZero ==
    /\ Parsed /\ token = while_ => result = Ok(While) /\ mode = While
    /\ mode = While =>
          /\ count(mode) = 1
          /\ range(mode) = [start |-> u32(0), end |-> u32(1)]
          /\ is_while(mode) /\ ~is_random(mode)
    /\ \A i \in Iters :
          iters[i].made /\ iters[i].mode = While =>
              /\ out[i] \in {<<>>, <<u32(0)>>}
              /\ last[i].called => out[i] = <<u32(0)>>

\* C8 witness: "while" was parsed and an iterator over it emitted 0 and ended
C8_Witness ==
    /\ token = while_
    /\ \E i \in Iters : iters[i].mode = While /\ out[i] = <<u32(0)>> /\ last[i] = None

\* C9: "first0" and "random0" parse to First(0) and Random(0); an iterator
\* over a policy of count 0 reports the end on its first request, emits
\* nothing and draws nothing from the generator.
C9_ZeroCountIsEmptyScan ==
    /\ Parsed /\ token = first_ \o <<"0">> => result = Ok(First(0))
    /\ Parsed /\ token = random_ \o <<"0">> => result = Ok(Random(0))
    /\ \A i \in Iters :
          iters[i].made /\ count(iters[i].mode) = 0 =>
              /\ out[i] = <<>>
              /\ last[i] \in {NotCalled, None}
              /\ rng[iters[i].rand] = 0

\* C9 witness: "random0" was parsed and its iterator reported the end at once
C9_Witness ==
    /\ token = random_ \o <<"0">>
    /\ \E i \in Iters :
          /\ iters[i].mode = Random(0)
          /\ last[i] = None /\ nones[i] = 1 /\ out[i] = <<>>
          /\ rng[iters[i].rand] = 0

\* C10: two iterators made from the same First or While policy emit the same
\* values: at any moment one output is a prefix of the other, and once both
\* have reported the end the two outputs are equal.
C10_NonRandomDeterministic ==
    \A i, j \in Iters :
        iters[i].made /\ iters[j].made /\ ~is_random(mode) =>
            /\ \A k \in 1..Len(out[i]) : k <= Len(out[j]) => out[i][k] = out[j][k]
            /\ last[i] = None /\ last[j] = None => out[i] = out[j]

\* C10 witness: two iterators over First(MaxCount), made on different threads,
\* have both ended with the same MaxCount values
C10_Witness ==
    /\ mode = First(MaxCount)
    /\ iters[1].rand # iters[2].rand
    /\ last[1] = None /\ last[2] = None
    /\ out[1] = out[2] /\ Len(out[1]) = MaxCount

\* C11: two iterators of one policy advanced in any interleaving do not
\* interfere: a next request on one leaves the cursor, the mode, the output
\* and the last return of the other unchanged, and each emits exactly count()
\* values before it reports the end (for First: 0, 1, ..., count-1 in order).
C11_NoInterference ==
    [][/\ \A i, j \in Iters :
             i # j /\ (out'[i] # out[i] \/ nones'[i] # nones[i]) =>
                 /\ iters'[j] = iters[j]
                 /\ out'[j] = out[j] /\ nones'[j] = nones[j] /\ last'[j] = last[j]
       /\ \A i \in Iters :
             iters'[i].made =>
                 /\ Len(out'[i]) <= count(mode')
                 /\ last'[i] = None => Len(out'[i]) = count(mode')
                 /\ iters'[i].mode.tag = "First" =>
                       \A k \in 1..Len(out'[i]) : out'[i][k] = u32(k - 1)]_vars

\* C11 witness: two Random(MaxCount) iterators of one thread were both advanced
\* to their end and emitted MaxCount values each, not the same ones
C11_Witness ==
    /\ mode = Random(MaxCount)
    /\ iters[1].made /\ iters[2].made /\ iters[1].rand = iters[2].rand
    /\ Len(out[1]) = MaxCount /\ Len(out[2]) = MaxCount /\ out[1] # out[2]
    /\ last[1] = None /\ last[2] = None

C13_CountAndRange ==
    mode # NoMode =>
        /\ count(mode) = (IF mode.tag = "While" THEN 1 ELSE mode.index)
        /\ count(mode) >= 0
        /\ ~ge(u32(count(mode)), HARDENED_INDEX_BOUNDARY)
        /\ range(mode).start = [hi |-> 0, lo |-> 0]
        /\ range(mode).end.hi * Limb + range(mode).end.lo = count(mode)
        /\ range(mode).end.hi \in 0..(Limb \div 2 - 1) /\ range(mode).end.lo \in 0..(Limb - 1)

\* C13 witness: "first2147483647" was parsed; the count is 2^31 - 1 and the
\* end of the range is 0x7FFFFFFF
C13_Witness ==
    /\ token = first_ \o Num2p31m1
    /\ mode.tag = "First"
    /\ count(mode) = (Limb \div 2 - 1) * Limb + (Limb - 1)
    /\ range(mode).end = [hi |-> Limb \div 2 - 1, lo |-> Limb - 1]

\* C14: for While, First and Random alike the cursor of an iterator equals
\* the number of values it has emitted: 0 at creation, one more after each
\* emission whatever the value was, and unchanged by a request that reports
\* the end.
C14_CursorCountsEmitted ==
    \A i \in Iters :
        /\ ~iters[i].made => out[i] = <<>> /\ nones[i] = 0
        /\ iters[i].made =>
              /\ iters[i].offset.hi = 0
              /\ iters[i].offset.lo = Len(out[i])

\* C14 witness: a Random(MaxCount) iterator that drew 2^32 - 1 each time has
\* its cursor at MaxCount, also after a request that reported the end
C14_Witness ==
    \E i \in Iters :
        /\ iters[i].mode = Random(MaxCount)
        /\ out[i] = [k \in 1..MaxCount |-> U32Max]
        /\ iters[i].offset = u32(MaxCount)
        /\ nones[i] = MaxExtra

\* C15: an iterator is one-shot: in every step its cursor does not decrease
\* (so it never returns to 0 once it has left it), what it has emitted stays
\* emitted, it keeps its mode, and the policy the caller holds is unchanged by
\* creating an iterator or by advancing one.
C15_OneShot ==
    [][/\ \A i \in Iters :
             iters[i].made =>
                 /\ iters'[i].made
                 /\ iters'[i].mode = iters[i].mode
                 /\ ge(iters'[i].offset, iters[i].offset)
                 /\ Len(out'[i]) >= Len(out[i])
                 /\ \A k \in 1..Len(out[i]) : out'[i][k] = out[i][k]
       /\ mode # NoMode => mode' = mode]_vars

\* C15 witness: the first iterator of First(MaxCount) is exhausted and was
\* asked again, and a second one made from the same policy starts at 0
C15_Witness ==
    /\ mode = First(MaxCount)
    /\ iters[1].mode = mode /\ iters[1].offset = u32(MaxCount) /\ nones[1] = MaxExtra
    /\ iters[2].mode = mode /\ iters[2].offset = u32(0) /\ out[2] = <<>>

\* C16: while a Random(n) iterator has emitted fewer than n values, every
\* value the generator can return is a possible next output, whatever the
\* count, the cursor and the earlier draws are, so outputs may repeat, may be
\* >= n and may lie in the hardened half; every value a While or First
\* iterator has emitted lies inside range().
C16_RandomUnconstrained ==
    \A i \in Iters :
        iters[i].made =>
            IF iters[i].mode.tag = "Random"
            THEN /\ Len(out[i]) < iters[i].mode.index =>
                       \A r \in RandVals : ENABLED (NextSome(i, r) /\ last'[i] = Some(r))
                 /\ \A k \in 1..Len(out[i]) : out[i][k] \in RandVals
            ELSE \A k \in 1..Len(out[i]) : ~ge(out[i][k], range(iters[i].mode).end)

\* C16 witness: a Random(MaxCount) iterator has emitted 2^32 - 1 twice in a
\* row: a repeated value, outside range() and in the hardened half
C16_Witness ==
    \E i \in Iters :
        /\ iters[i].mode = Random(MaxCount)
        /\ Len(out[i]) >= 2 /\ out[i][1] = out[i][2]
        /\ ge(out[i][1], range(iters[i].mode).end)
        /\ ge(out[i][1], HARDENED_INDEX_BOUNDARY)

\* C17: the cursor of an iterator stays between 0 and count(), which is
\* below 2^31; an iterator that has reported the end has its cursor exactly at
\* count(); the cursor is never at a value whose increment overflows, and no
\* next request has panicked.
C17_CursorWithinCount ==
    /\ ~panicked
    /\ \A i \in Iters :
          iters[i].made =>
              /\ ge(iters[i].offset, u32(0))
              /\ ge(u32(count(iters[i].mode)), iters[i].offset)
              /\ ~ge(u32(count(iters[i].mode)), HARDENED_INDEX_BOUNDARY)
              /\ ~add_one(iters[i].offset).over
              /\ (nones[i] > 0 \/ last[i] = None) => iters[i].offset = u32(count(iters[i].mode))

\* C17 witness: a Random(MaxCount) iterator that drew 2^32 - 1 has ended with
\* its cursor at count() and was asked again without a panic
C17_Witness ==
    \E i \in Iters :
        /\ iters[i].mode = Random(MaxCount)
        /\ Len(out[i]) = MaxCount /\ out[i][1] = U32Max
        /\ iters[i].offset = u32(count(iters[i].mode))
        /\ nones[i] = MaxExtra /\ last[i] = None
        /\ ~panicked

\* C18: the text a policy displays as ("while", "first<count>",
\* "random<count>", the count in decimal) parses back to the same policy; the
\* converse fails for the tokens "first" and "random" (see the witness).
C18_DisplayParsesBack ==
    mode # NoMode => from_str(display(mode)) = Ok(mode)

\* C18 witness: "first" was parsed to First(1), which displays as "first1":
\* not the token parsed, yet a text that parses to First(1) again
C18_Witness ==
    /\ token = first_
    /\ result = Ok(First(1)) /\ mode = First(1)
    /\ display(mode) = <<"f", "i", "r", "s", "t", "1">>
    /\ display(mode) # token
    /\ from_str(display(mode)) = result

====
